---- MODULE Spec2Model ----
(***************************************************************************)
(* floofspectools: the RFC 8955 section 5.1 ordering of FlowSpec component *)
(* lists (CompareFlowSpecKey, SortFlowSpecs) and the RFC 8955 / RFC 9117   *)
(* feasibility check (ValidateFeasibility).  Both are functions of their   *)
(* arguments: a state of the model is one call, its arguments and what it  *)
(* returned.                                                               *)
(*                                                                         *)
(* Addresses are byte sequences (4 bytes for IPv4, 16 for IPv6), a         *)
(* netip.Prefix is [addr, bits], a Go slice is a sequence, a nil pointer   *)
(* is the value Nil, and an AS_PATH is NilSlice or Slice(elements).        *)
(***************************************************************************)
EXTENDS Integers, Sequences, FiniteSets

VARIABLES
    op,        \* the call the state records: "init", "compare", "compare3", "sort",
               \* "validate", or "steps" for a ValidateFeasibility run step by step
    a, b, c,   \* CompareFlowSpecKey: the component lists compared
    rab, rba,  \* CompareFlowSpecKey(a, b), CompareFlowSpecKey(b, a)
    rbc, rac,  \* CompareFlowSpecKey(b, c), CompareFlowSpecKey(a, c)
    list,      \* SortFlowSpecs: the slice as passed
    sorted,    \* SortFlowSpecs: the slice when the call returns
    fs,        \* ValidateFeasibility: the FlowSpecRoute
    rib,       \* ValidateFeasibility: the answers of the UnicastRIB
    cfg,       \* ValidateFeasibility: the *Config, Nil when absent
    err,       \* ValidateFeasibility: the error returned, "nil" for success
    pc,        \* ValidateFeasibility run step by step: where the call is
    queries,   \* the queries the call has made to the RIB, in order
    lbest,     \* the local best
    lmore,     \* the local moreSpecifics
    idx        \* the position of the range loop in moreSpecifics (1-based)

vars == <<op, a, b, c, rab, rba, rbc, rac, list, sorted, fs, rib, cfg, err,
          pc, queries, lbest, lmore, idx>>

\* A nil pointer, nil interface value or absent argument.
Nil == [nil |-> TRUE]

-----------------------------------------------------------------------------
(* Types (types.go) *)

ComponentTypeDestinationPrefix == 1
ComponentTypeSourcePrefix == 2
ComponentTypeIpProtocol == 3
ComponentTypePort == 4

ComponentType ==
    { ComponentTypeDestinationPrefix, ComponentTypeSourcePrefix,
      ComponentTypeIpProtocol, ComponentTypePort }

AHasPrecedence == -1
Equal == 0
BHasPrecedence == 1

-----------------------------------------------------------------------------
(* net/netip as CompareFlowSpecKey uses it *)

\* Addr.BitLen: 32 for an IPv4 address, 128 for an IPv6 address.
BitLen(addr) == 8 * Len(addr)

RECURSIVE BytesLessFrom(_, _, _)
\* Unsigned big-endian comparison of two byte sequences of the same length.
BytesLessFrom(x, y, i) ==
    IF i > Len(x) THEN FALSE
    ELSE IF x[i] < y[i] THEN TRUE
    ELSE IF y[i] < x[i] THEN FALSE
    ELSE BytesLessFrom(x, y, i + 1)

\* Addr.Less: IPv4 sorts before IPv6, then by address value.
AddrLess(x, y) ==
    IF BitLen(x) < BitLen(y) THEN TRUE
    ELSE IF BitLen(y) < BitLen(x) THEN FALSE
    ELSE BytesLessFrom(x, y, 1)

\* Prefix.Contains: same family, and the first p.bits bits of ip are those of
\* p.addr (the host bits of p.addr are not looked at).
PrefixContains(p, ip) ==
    LET full == p.bits \div 8
        rem  == p.bits % 8
    IN  /\ BitLen(p.addr) = BitLen(ip)
        /\ \A i \in 1..full : p.addr[i] = ip[i]
        /\ rem > 0 =>
             (p.addr[full + 1] \div 2^(8 - rem)) = (ip[full + 1] \div 2^(8 - rem))

-----------------------------------------------------------------------------
(* ordering.go *)

\* A byte read as a signed int8.
SignedByte(x) == IF x >= 128 THEN x - 256 ELSE x

RECURSIVE RawWalkSigned(_, _, _, _)
\* RawWalk comparing the bytes as signed values.
RawWalkSigned(araw, braw, j, n) ==
    IF j > n THEN Equal
    ELSE IF SignedByte(araw[j]) < SignedByte(braw[j]) THEN AHasPrecedence
    ELSE IF SignedByte(braw[j]) < SignedByte(araw[j]) THEN BHasPrecedence
    ELSE RawWalkSigned(araw, braw, j + 1, n)

RECURSIVE RawWalk(_, _, _, _)
\* The byte loop over positions j..n of two raw values: the first differing
\* byte decides, compared unsigned; 0 when the loop ends without a return.
RawWalk(araw, braw, j, n) ==
    IF j > n THEN Equal
    ELSE IF araw[j] < braw[j] THEN AHasPrecedence
    ELSE IF braw[j] < araw[j] THEN BHasPrecedence
    ELSE RawWalk(araw, braw, j + 1, n)

\* ComparePrefix with the shorter (less specific) of two nested prefixes winning.
ComparePrefixShorterWins(aprefix, bprefix) ==
    LET abits == aprefix.bits
        bbits == bprefix.bits
        aaddr == aprefix.addr
        baddr == bprefix.addr
    IN  IF abits > bbits /\ PrefixContains(bprefix, aaddr) THEN BHasPrecedence
        ELSE IF bbits > abits /\ PrefixContains(aprefix, baddr) THEN AHasPrecedence
        ELSE IF abits = bbits /\ AddrLess(aaddr, baddr) THEN AHasPrecedence
        ELSE IF abits = bbits /\ AddrLess(baddr, aaddr) THEN BHasPrecedence
        ELSE Equal

\* ComparePrefix with the lowest address winning whenever neither prefix
\* contains the other (the rule of RFC 8955 section 5.1).
ComparePrefixLowestIP(aprefix, bprefix) ==
    LET abits == aprefix.bits
        bbits == bprefix.bits
        aaddr == aprefix.addr
        baddr == bprefix.addr
    IN  IF abits > bbits /\ PrefixContains(bprefix, aaddr) THEN AHasPrecedence
        ELSE IF bbits > abits /\ PrefixContains(aprefix, baddr) THEN BHasPrecedence
        ELSE IF AddrLess(aaddr, baddr) THEN AHasPrecedence
        ELSE IF AddrLess(baddr, aaddr) THEN BHasPrecedence
        ELSE Equal

\* The prefix branch of one loop iteration; 0 when the iteration returns
\* nothing and the loop goes on to the next position.
ComparePrefix(aprefix, bprefix) ==
    LET abits == aprefix.bits
        bbits == bprefix.bits
        aaddr == aprefix.addr
        baddr == bprefix.addr
    IN  IF abits > bbits /\ PrefixContains(bprefix, aaddr) THEN AHasPrecedence
        ELSE IF bbits > abits /\ PrefixContains(aprefix, baddr) THEN BHasPrecedence
        ELSE IF abits = bbits /\ AddrLess(aaddr, baddr) THEN AHasPrecedence
        ELSE IF abits = bbits /\ AddrLess(baddr, aaddr) THEN BHasPrecedence
        ELSE Equal

\* CompareRaw without the length comparison of values of different lengths:
\* a tie over the common part falls to the last return of the branch.
CompareRawNoLength(araw, braw) ==
    LET alenRaw == Len(araw)
        blenRaw == Len(braw)
        commonLen == IF blenRaw < alenRaw THEN blenRaw ELSE alenRaw
    IN  IF alenRaw = blenRaw THEN RawWalk(araw, braw, 1, alenRaw)
        ELSE LET w == RawWalk(araw, braw, 1, commonLen)
             IN  IF w # Equal THEN w ELSE BHasPrecedence

\* The raw branch of one loop iteration; 0 when the iteration returns nothing.
CompareRaw(araw, braw) ==
    LET alenRaw == Len(araw)
        blenRaw == Len(braw)
        commonLen == IF blenRaw < alenRaw THEN blenRaw ELSE alenRaw
    IN  IF alenRaw = blenRaw THEN RawWalk(araw, braw, 1, alenRaw)
        ELSE LET w == RawWalk(araw, braw, 1, commonLen)
             IN  IF w # Equal THEN w
                 ELSE IF alenRaw > blenRaw THEN AHasPrecedence
                 ELSE IF blenRaw > alenRaw THEN BHasPrecedence
                 ELSE BHasPrecedence

\* One iteration of the loop over positions, both lists having a component
\* there; 0 when the loop goes on.
CompareComponent(acomp, bcomp) ==
    LET atype == acomp.Type
        btype == bcomp.Type
    IN  IF atype < btype THEN AHasPrecedence
        ELSE IF btype < atype THEN BHasPrecedence
        ELSE IF atype = ComponentTypeDestinationPrefix \/ atype = ComponentTypeSourcePrefix
             THEN ComparePrefix(acomp.Prefix, bcomp.Prefix)
        ELSE CompareRaw(acomp.Raw, bcomp.Raw)

RECURSIVE CompareWalk(_, _, _)
\* The loop for i := 0; i < alen; i++, from position i on (1-based).
CompareWalk(x, y, i) ==
    IF i > Len(x) THEN Equal
    ELSE LET r == CompareComponent(x[i], y[i])
         IN  IF r # Equal THEN r ELSE CompareWalk(x, y, i + 1)

\* CompareFlowSpecKey looking at the first component types before the counts.
CompareFlowSpecKeyTypeFirst(x, y) ==
    LET alen == Len(x)
        blen == Len(y)
    IN  IF alen > 0 /\ blen > 0 /\ x[1].Type < y[1].Type THEN AHasPrecedence
        ELSE IF alen > 0 /\ blen > 0 /\ y[1].Type < x[1].Type THEN BHasPrecedence
        ELSE IF alen > blen THEN AHasPrecedence
        ELSE IF blen > alen THEN BHasPrecedence
        ELSE CompareWalk(x, y, 1)

\* CompareFlowSpecKey(a, b FSComponentList) int8, on the Components slices.
CompareFlowSpecKey(x, y) ==
    LET alen == Len(x)
        blen == Len(y)
    IN  IF alen > blen THEN AHasPrecedence
        ELSE IF blen > alen THEN BHasPrecedence
        ELSE CompareWalk(x, y, 1)

\* The less function SortFlowSpecs hands to sort.Slice, on two lists.
SortLess(x, y) == CompareFlowSpecKey(x, y) < 0

(* sort.Slice(list, less) of the Go library (pdqsort_func and what it calls).
   Positions are Go's, counted from 0; data is the slice, a sequence whose
   element at position i is data[i + 1]; lo and hi are the a and b of the Go
   code, which sorts data[a:b]. *)

\* data.Less(i, j)
Less(data, i, j) == SortLess(data[i + 1], data[j + 1])

\* data.Swap(i, j)
Swap(data, i, j) == [data EXCEPT ![i + 1] = data[j + 1], ![j + 1] = data[i + 1]]

\* F(v), with v evaluated once before F is applied to it.
With(v, F(_)) == CHOOSE r \in { F(x) : x \in {v} } : TRUE

maxInsertion == 12
shortestNinther == 50
maxSwaps == 12
maxSteps == 5
shortestShifting == 50

increasingHint == "increasing"
decreasingHint == "decreasing"
unknownHint == "unknown"

RECURSIVE BitsLen(_)
\* bits.Len(uint(n)): the number of bits needed to write n.
BitsLen(n) == IF n = 0 THEN 0 ELSE 1 + BitsLen(n \div 2)

RECURSIVE InsertDown(_, _, _)
\* The inner loop of insertionSort_func:
\* for j := i; j > a && less(j, j-1); j-- { swap(j, j-1) }.
InsertDown(data, lo, j) ==
    IF j > lo /\ Less(data, j, j - 1)
    THEN With(Swap(data, j, j - 1), LAMBDA d : InsertDown(d, lo, j - 1))
    ELSE data

RECURSIVE InsertionSortFrom(_, _, _, _)
\* The outer loop of insertionSort_func: for i := a + 1; i < b; i++.
InsertionSortFrom(data, lo, hi, i) ==
    IF i >= hi THEN data
    ELSE With(InsertDown(data, lo, i), LAMBDA d : InsertionSortFrom(d, lo, hi, i + 1))

insertionSort_func(data, lo, hi) == InsertionSortFrom(data, lo, hi, lo + 1)

\* siftDown_func: the child the root is compared with, the greater of the two.
SiftChild(data, root, hi, first) ==
    LET child == 2 * root + 1
    IN  IF child + 1 < hi /\ Less(data, first + child, first + child + 1)
        THEN child + 1 ELSE child

RECURSIVE siftDown_func(_, _, _, _)
\* siftDown_func(data, lo, hi, first), the loop unrolled on root.
siftDown_func(data, root, hi, first) ==
    IF 2 * root + 1 >= hi THEN data
    ELSE With(SiftChild(data, root, hi, first), LAMBDA child :
            IF ~Less(data, first + root, first + child) THEN data
            ELSE With(Swap(data, first + root, first + child),
                      LAMBDA d : siftDown_func(d, child, hi, first)))

RECURSIVE HeapBuild(_, _, _, _)
\* heapSort_func: for i := (hi - 1) / 2; i >= 0; i-- { siftDown(i, hi, first) }.
HeapBuild(data, i, hi, first) ==
    IF i < 0 THEN data
    ELSE With(siftDown_func(data, i, hi, first),
              LAMBDA d : HeapBuild(d, i - 1, hi, first))

RECURSIVE HeapPop(_, _, _)
\* heapSort_func: for i := hi - 1; i >= 0; i-- { swap(first, first+i); siftDown(lo, i, first) }.
HeapPop(data, i, first) ==
    IF i < 0 THEN data
    ELSE With(Swap(data, first, first + i), LAMBDA d1 :
            With(siftDown_func(d1, 0, i, first),
                 LAMBDA d2 : HeapPop(d2, i - 1, first)))

heapSort_func(data, lo, hi) ==
    With(HeapBuild(data, (hi - lo - 1) \div 2, hi - lo, lo),
         LAMBDA d : HeapPop(d, hi - lo - 1, lo))

nextPowerOfTwo(length) == 2 ^ BitsLen(length)

\* breakPatterns_func swaps the three elements in the middle with elements at
\* pseudo-random positions.  random.Next() is a xorshift generator of the Go
\* library, seeded with the length; its code is not part of the repository and
\* its constants belong to the Go release, so it may return any number here,
\* and the operator gives every slice the call can leave.
breakPatterns_func(data, lo, hi) ==
    LET length  == hi - lo
        modulus == nextPowerOfTwo(length)
        at      == lo + (length \div 4) * 2 - 1
        Other(r) == IF r >= length THEN r - length ELSE r
    IN  IF length >= 8
        THEN { Swap(d2, at + 1, lo + Other(r3)) :
                 d2 \in { Swap(d1, at, lo + Other(r2)) :
                            d1 \in { Swap(data, at - 1, lo + Other(r1)) :
                                       r1 \in 0..(modulus - 1) },
                            r2 \in 0..(modulus - 1) },
                 r3 \in 0..(modulus - 1) }
        ELSE {data}

\* order2_func: the two positions in order, and the swap count.
order2_func(data, x, y, swaps) ==
    IF Less(data, y, x) THEN <<y, x, swaps + 1>> ELSE <<x, y, swaps>>

\* median_func: the position of the median of three, and the swap count.
median_func(data, x, y, z, swaps) ==
    With(order2_func(data, x, y, swaps), LAMBDA s1 :
      With(order2_func(data, s1[2], z, s1[3]), LAMBDA s2 :
        With(order2_func(data, s1[1], s2[1], s2[3]), LAMBDA s3 :
          <<s3[2], s3[3]>>)))

medianAdjacent_func(data, x, swaps) == median_func(data, x - 1, x, x + 1, swaps)

\* choosePivot_func for l >= shortestNinther: the Tukey ninther.
Ninther(data, i, j, k) ==
    With(medianAdjacent_func(data, i, 0), LAMBDA mi :
      With(medianAdjacent_func(data, j, mi[2]), LAMBDA mj :
        With(medianAdjacent_func(data, k, mj[2]), LAMBDA mk :
          median_func(data, mi[1], mj[1], mk[1], mk[2]))))

\* choosePivot_func: the pivot position and the hint.
choosePivot_func(data, lo, hi) ==
    LET l  == hi - lo
        i  == lo + (l \div 4) * 1
        j  == lo + (l \div 4) * 2
        k  == lo + (l \div 4) * 3
    IN  With(IF l < 8 THEN <<j, 0>>
             ELSE IF l >= shortestNinther THEN Ninther(data, i, j, k)
             ELSE median_func(data, i, j, k, 0),
             LAMBDA m :
               [pivot |-> m[1],
                hint  |-> IF m[2] = 0 THEN increasingHint
                          ELSE IF m[2] = maxSwaps THEN decreasingHint
                          ELSE unknownHint])

RECURSIVE ReverseFrom(_, _, _)
\* reverseRange_func: for i < j { swap(i, j); i++; j-- }.
ReverseFrom(data, i, j) ==
    IF i < j THEN With(Swap(data, i, j), LAMBDA d : ReverseFrom(d, i + 1, j - 1))
    ELSE data

reverseRange_func(data, lo, hi) == ReverseFrom(data, lo, hi - 1)

RECURSIVE SkipOrdered(_, _, _)
\* partialInsertionSort_func: for i < b && !less(i, i-1) { i++ }.
SkipOrdered(data, i, hi) ==
    IF i < hi /\ ~Less(data, i, i - 1) THEN SkipOrdered(data, i + 1, hi) ELSE i

RECURSIVE ShiftLeft(_, _)
\* partialInsertionSort_func: for j := i - 1; j >= 1; j-- { if !less(j, j-1) break; swap }.
ShiftLeft(data, j) ==
    IF j >= 1 /\ Less(data, j, j - 1)
    THEN With(Swap(data, j, j - 1), LAMBDA d : ShiftLeft(d, j - 1))
    ELSE data

RECURSIVE ShiftRight(_, _, _)
\* partialInsertionSort_func: for j := i + 1; j < b; j++ { if !less(j, j-1) break; swap }.
ShiftRight(data, j, hi) ==
    IF j < hi /\ Less(data, j, j - 1)
    THEN With(Swap(data, j, j - 1), LAMBDA d : ShiftRight(d, j + 1, hi))
    ELSE data

\* partialInsertionSort_func: the swap of one out-of-order pair and the two
\* shifts that follow it.
ShiftPair(data, lo, hi, i) ==
    With(Swap(data, i, i - 1), LAMBDA d1 :
      With(IF i - lo >= 2 THEN ShiftLeft(d1, i - 1) ELSE d1, LAMBDA d2 :
        IF hi - i >= 2 THEN ShiftRight(d2, i + 1, hi) ELSE d2))

RECURSIVE PartialSteps(_, _, _, _, _)
\* partialInsertionSort_func: the loop for j := 0; j < maxSteps; j++.
PartialSteps(data, lo, hi, i0, step) ==
    IF step >= maxSteps THEN [data |-> data, done |-> FALSE]
    ELSE With(SkipOrdered(data, i0, hi), LAMBDA i :
           IF i = hi THEN [data |-> data, done |-> TRUE]
           ELSE IF hi - lo < shortestShifting THEN [data |-> data, done |-> FALSE]
           ELSE With(ShiftPair(data, lo, hi, i),
                     LAMBDA d : PartialSteps(d, lo, hi, i, step + 1)))

\* partialInsertionSort_func: the slice, and whether it is sorted at the end.
partialInsertionSort_func(data, lo, hi) == PartialSteps(data, lo, hi, lo + 1, 0)

RECURSIVE UpWhileLess(_, _, _, _)
\* partition_func: for i <= j && less(i, a) { i++ }.
UpWhileLess(data, lo, i, j) ==
    IF i <= j /\ Less(data, i, lo) THEN UpWhileLess(data, lo, i + 1, j) ELSE i

RECURSIVE DownWhileNotLess(_, _, _, _)
\* partition_func: for i <= j && !less(j, a) { j-- }.
DownWhileNotLess(data, lo, i, j) ==
    IF i <= j /\ ~Less(data, j, lo) THEN DownWhileNotLess(data, lo, i, j - 1) ELSE j

RECURSIVE PartitionLoop(_, _, _, _)
\* partition_func: the for loop after the first swap.
PartitionLoop(data, lo, i0, j0) ==
    With(UpWhileLess(data, lo, i0, j0), LAMBDA i :
      With(DownWhileNotLess(data, lo, i, j0), LAMBDA j :
        IF i > j THEN [data |-> data, j |-> j]
        ELSE With(Swap(data, i, j), LAMBDA d : PartitionLoop(d, lo, i + 1, j - 1))))

\* partition_func after swap(a, pivot).
PartitionFrom(d0, lo, hi) ==
    With(UpWhileLess(d0, lo, lo + 1, hi - 1), LAMBDA i :
      With(DownWhileNotLess(d0, lo, i, hi - 1), LAMBDA j :
        IF i > j
        THEN [data |-> Swap(d0, j, lo), mid |-> j, alreadyPartitioned |-> TRUE]
        ELSE With(Swap(d0, i, j), LAMBDA d1 :
               With(PartitionLoop(d1, lo, i + 1, j - 1), LAMBDA r :
                 [data |-> Swap(r.data, r.j, lo), mid |-> r.j,
                  alreadyPartitioned |-> FALSE]))))

\* partition_func: the slice, the new pivot position, alreadyPartitioned.
partition_func(data, lo, hi, pivot) ==
    With(Swap(data, lo, pivot), LAMBDA d0 : PartitionFrom(d0, lo, hi))

RECURSIVE UpWhileNotGreater(_, _, _, _)
\* partitionEqual_func: for i <= j && !less(a, i) { i++ }.
UpWhileNotGreater(data, lo, i, j) ==
    IF i <= j /\ ~Less(data, lo, i) THEN UpWhileNotGreater(data, lo, i + 1, j) ELSE i

RECURSIVE DownWhileGreater(_, _, _, _)
\* partitionEqual_func: for i <= j && less(a, j) { j-- }.
DownWhileGreater(data, lo, i, j) ==
    IF i <= j /\ Less(data, lo, j) THEN DownWhileGreater(data, lo, i, j - 1) ELSE j

RECURSIVE PartitionEqualLoop(_, _, _, _)
\* partitionEqual_func: its for loop.
PartitionEqualLoop(data, lo, i0, j0) ==
    With(UpWhileNotGreater(data, lo, i0, j0), LAMBDA i :
      With(DownWhileGreater(data, lo, i, j0), LAMBDA j :
        IF i > j THEN [data |-> data, mid |-> i]
        ELSE With(Swap(data, i, j),
                  LAMBDA d : PartitionEqualLoop(d, lo, i + 1, j - 1))))

\* partitionEqual_func: the slice and the position after the elements equal
\* to the pivot, which it leaves in no particular order.
partitionEqual_func(data, lo, hi, pivot) ==
    With(Swap(data, lo, pivot), LAMBDA d0 : PartitionEqualLoop(d0, lo, lo + 1, hi - 1))

RECURSIVE pdqsort_func(_, _, _, _, _, _)
RECURSIVE PdqChoose(_, _, _, _, _, _)
RECURSIVE PdqPartition(_, _, _, _, _, _, _)
RECURSIVE PdqRecurse(_, _, _, _, _)

\* pdqsort_func(data, a, b, limit): the slices the call can leave.  One
\* evaluation is one round of its for loop; wasBalanced and wasPartitioned are
\* its two local flags, both true when the function is entered.
pdqsort_func(data, lo, hi, limit, wasBalanced, wasPartitioned) ==
    IF hi - lo <= maxInsertion THEN {insertionSort_func(data, lo, hi)}
    ELSE IF limit = 0 THEN {heapSort_func(data, lo, hi)}
    ELSE IF ~wasBalanced
    THEN UNION { PdqChoose(d, lo, hi, limit - 1, wasBalanced, wasPartitioned) :
                   d \in breakPatterns_func(data, lo, hi) }
    ELSE PdqChoose(data, lo, hi, limit, wasBalanced, wasPartitioned)

\* The round from choosePivot_func to the reversal of a decreasing slice.
PdqChoose(data, lo, hi, limit, wasBalanced, wasPartitioned) ==
    With(choosePivot_func(data, lo, hi), LAMBDA cp :
      IF cp.hint = decreasingHint
      THEN With(reverseRange_func(data, lo, hi), LAMBDA d :
             PdqPartition(d, lo, hi, limit, wasBalanced, wasPartitioned,
                          [pivot |-> (hi - 1) - (cp.pivot - lo), hint |-> increasingHint]))
      ELSE PdqPartition(data, lo, hi, limit, wasBalanced, wasPartitioned, cp))

\* The round from partialInsertionSort_func to the partition.
PdqPartition(data, lo, hi, limit, wasBalanced, wasPartitioned, cp) ==
    With(IF wasBalanced /\ wasPartitioned /\ cp.hint = increasingHint
         THEN partialInsertionSort_func(data, lo, hi)
         ELSE [data |-> data, done |-> FALSE],
         LAMBDA pis :
           IF pis.done THEN {pis.data}
           ELSE IF lo > 0 /\ ~Less(pis.data, lo - 1, cp.pivot)
           THEN With(partitionEqual_func(pis.data, lo, hi, cp.pivot), LAMBDA pe :
                  pdqsort_func(pe.data, pe.mid, hi, limit, wasBalanced, wasPartitioned))
           ELSE With(partition_func(pis.data, lo, hi, cp.pivot), LAMBDA pt :
                  PdqRecurse(pt, lo, hi, limit, (hi - lo) \div 8)))

\* The end of the round: the shorter side is sorted by a call of its own, the
\* longer one by the next round.
PdqRecurse(pt, lo, hi, limit, balanceThreshold) ==
    LET leftLen  == pt.mid - lo
        rightLen == hi - pt.mid
    IN  IF leftLen < rightLen
        THEN UNION { pdqsort_func(d, pt.mid + 1, hi, limit,
                                  leftLen >= balanceThreshold, pt.alreadyPartitioned) :
                       d \in pdqsort_func(pt.data, lo, pt.mid, limit, TRUE, TRUE) }
        ELSE UNION { pdqsort_func(d, lo, pt.mid, limit,
                                  rightLen >= balanceThreshold, pt.alreadyPartitioned) :
                       d \in pdqsort_func(pt.data, pt.mid + 1, hi, limit, TRUE, TRUE) }

\* SortFlowSpecs(list []FSComponentList): the slices the in-place sort can
\* leave, sort.Slice being pdqsort_func(data, 0, n, bits.Len(n)).  There is one
\* but for the slices breakPatterns_func is called on.
SortFlowSpecs(s) ==
    With(s, LAMBDA data : pdqsort_func(data, 0, Len(data), BitsLen(Len(data)), TRUE, TRUE))

-----------------------------------------------------------------------------
(* validator.go *)

ErrNoDestinationPrefix == "ErrNoDestinationPrefix"
ErrNoBestUnicast == "ErrNoBestUnicast"
ErrOriginatorValidationFailed == "ErrOriginatorValidationFailed"
ErrMoreSpecificFromOtherNeighbor == "ErrMoreSpecificFromOtherNeighbor"
ErrLeftMostASMismatch == "ErrLeftMostASMismatch"
NoError == "nil"

\* A []uint32: nil, or a slice with the given elements (possibly none).
NilSlice == [isNil |-> TRUE, elems |-> <<>>]
Slice(s) == [isNil |-> FALSE, elems |-> s]
\* len(x) of a slice; 0 for the nil slice.
SliceLen(x) == Len(x.elems)

v4InV6Prefix == <<0, 0, 0, 0, 0, 0, 0, 0, 0, 0, 255, 255>>

\* net.IP.Equal: an IPv4 address and the same address in 16-byte form are equal.
IPEqual(ip, x) ==
    IF Len(ip) = Len(x) THEN ip = x
    ELSE IF Len(ip) = 4 /\ Len(x) = 16
         THEN SubSeq(x, 1, 12) = v4InV6Prefix /\ ip = SubSeq(x, 13, 16)
    ELSE IF Len(ip) = 16 /\ Len(x) = 4
         THEN SubSeq(ip, 1, 12) = v4InV6Prefix /\ SubSeq(ip, 13, 16) = x
    ELSE FALSE

\* The two queries of the UnicastRIB interface, answered as the RIB answers
\* them for the prefix asked about.
BestPath(r, p) == r.best
MoreSpecifics(r, p) == r.moreSpecific

\* DefaultConfig as the zero Config.
DefaultConfigZero ==
    [AllowNoDestPrefix |-> FALSE, EnableEmptyOrConfed |-> FALSE, ASPathPolicy |-> Nil]

\* The Config a nil cfg is replaced by.
DefaultConfig ==
    [AllowNoDestPrefix |-> FALSE, EnableEmptyOrConfed |-> TRUE, ASPathPolicy |-> Nil]

\* if cfg == nil { cfg = &Config{...} }
EffectiveConfig(g) == IF g = Nil THEN DefaultConfig ELSE g

\* RuleA with the toggle read the wrong way round.
RuleAInverted(f, g) == IF g.AllowNoDestPrefix THEN ErrNoDestinationPrefix ELSE NoError

\* Rule a): the outcome for a rule without destination prefix.
RuleA(f, g) == IF ~g.AllowNoDestPrefix THEN ErrNoDestinationPrefix ELSE NoError

\* OriginatorCheckSkipped without the test of the session type.
OriginatorCheckSkippedAnySession(f, g) ==
    g.EnableEmptyOrConfed /\ SliceLen(f.ASPath) = 0

\* Rule b): whether the goto RuleCCheck is taken, skipping the originator check.
OriginatorCheckSkipped(f, g) ==
    g.EnableEmptyOrConfed /\ ~f.FromEBGP /\ SliceLen(f.ASPath) = 0

\* Rule b): the originator comparison against the best path.
RuleB(f, g, best) ==
    IF OriginatorCheckSkipped(f, g) THEN NoError
    ELSE IF ~IPEqual(best.OriginatorID, f.OriginatorID) THEN ErrOriginatorValidationFailed
    ELSE NoError

\* RuleCLoop looking at one route only.
RuleCFirstOnly(more, i, best) ==
    IF i > Len(more) THEN NoError
    ELSE IF more[i].NeighborAS # best.NeighborAS THEN ErrMoreSpecificFromOtherNeighbor
    ELSE NoError

RECURSIVE RuleCLoop(_, _, _)
\* Rule c): for _, r := range moreSpecifics, from position i on.
RuleCLoop(more, i, best) ==
    IF i > Len(more) THEN NoError
    ELSE IF more[i].NeighborAS # best.NeighborAS THEN ErrMoreSpecificFromOtherNeighbor
    ELSE RuleCLoop(more, i + 1, best)

\* LeftMostASCheck comparing the last AS of each AS_PATH.
LeftMostASCheckRightMost(f, best) ==
    IF f.FromEBGP
    THEN IF SliceLen(best.ASPath) = 0 THEN ErrLeftMostASMismatch
         ELSE IF SliceLen(f.ASPath) = 0 THEN ErrLeftMostASMismatch
         ELSE IF f.ASPath.elems[SliceLen(f.ASPath)] # best.ASPath.elems[SliceLen(best.ASPath)]
              THEN ErrLeftMostASMismatch
         ELSE NoError
    ELSE NoError

\* RFC9117: the eBGP left-most AS check.
LeftMostASCheck(f, best) ==
    IF f.FromEBGP
    THEN IF SliceLen(best.ASPath) = 0 THEN ErrLeftMostASMismatch
         ELSE IF SliceLen(f.ASPath) = 0 THEN ErrLeftMostASMismatch
         ELSE IF f.ASPath.elems[1] # best.ASPath.elems[1] THEN ErrLeftMostASMismatch
         ELSE NoError
    ELSE NoError

\* AfterBestPath with rule c) checked before the originator.
AfterBestPathCFirst(f, r, g, dst, best) ==
    LET rc == RuleCLoop(MoreSpecifics(r, dst), 1, best)
    IN  IF rc # NoError THEN rc
        ELSE IF RuleB(f, g, best) # NoError THEN RuleB(f, g, best)
        ELSE LeftMostASCheck(f, best)

\* The chain once the best path is known.
AfterBestPath(f, r, g, dst, best) ==
    IF RuleB(f, g, best) # NoError THEN RuleB(f, g, best)
    ELSE LET rc == RuleCLoop(MoreSpecifics(r, dst), 1, best)
         IN  IF rc # NoError THEN rc ELSE LeftMostASCheck(f, best)

\* ValidateFeasibility(fs *FlowSpecRoute, rib UnicastRIB, cfg *Config) error
ValidateFeasibility(f, r, g0) ==
    LET g   == EffectiveConfig(g0)
        dst == f.DestPrefix
    IN  IF dst = Nil THEN RuleA(f, g)
        ELSE LET best == BestPath(r, dst)
             IN  IF best = Nil THEN ErrNoBestUnicast
                 ELSE AfterBestPath(f, r, g, dst, best)

-----------------------------------------------------------------------------
(* The arguments the calls are made with *)

MaxComps == 2
MaxSortLen == 4
MaxLongLen == 14
MaxOdd == 2
MaxMore == 2

V4(o1, o2, o3, o4) == <<o1, o2, o3, o4>>
\* net.IPv4(a, b, c, d): the 16-byte form of an IPv4 address.
IPv4(o1, o2, o3, o4) == v4InV6Prefix \o <<o1, o2, o3, o4>>
V6Doc == <<32, 1, 13, 184, 0, 0, 0, 0, 0, 0, 0, 0, 0, 0, 0, 0>>
Pfx(addr, bits) == [addr |-> addr, bits |-> bits]

\* Prefixes as netip.ParsePrefix returns them: host bits are kept.
PrefixPool ==
    { Pfx(V4(192, 0, 2, 0), 16), Pfx(V4(192, 0, 2, 0), 24),
      Pfx(V4(192, 0, 2, 128), 24), Pfx(V4(192, 0, 2, 0), 23),
      Pfx(V4(192, 0, 3, 0), 24), Pfx(V4(198, 51, 100, 0), 16),
      Pfx(V4(198, 51, 100, 0), 24), Pfx(V6Doc, 24) }

RawPool ==
    { <<1, 6>>, <<129, 4>>, <<129, 17>>, <<129>>, <<1, 115, 129, 4>> }

PrefixComp(t, p) == [Type |-> t, Prefix |-> p, Raw |-> <<>>]
RawComp(t, r) == [Type |-> t, Prefix |-> Nil, Raw |-> r]

ComponentPool ==
    { PrefixComp(t, p) :
        t \in {ComponentTypeDestinationPrefix, ComponentTypeSourcePrefix}, p \in PrefixPool }
    \cup { RawComp(t, r) : t \in {ComponentTypeIpProtocol, ComponentTypePort}, r \in RawPool }

\* The data-model invariant of a component list: ascending types, so at most
\* one component per type.
Ascending(s) == \A i \in 1..(Len(s) - 1) : s[i].Type < s[i + 1].Type

KeysOver(pool, n) == { s \in [1..n -> pool] : Ascending(s) }

Keys == UNION { KeysOver(ComponentPool, n) : n \in 0..MaxComps }

\* The lists the three-way comparisons and the sorts are run on.
SortComponentPool ==
    { PrefixComp(ComponentTypeDestinationPrefix, Pfx(V4(192, 0, 2, 0), 24)),
      PrefixComp(ComponentTypeDestinationPrefix, Pfx(V4(192, 0, 2, 0), 16)),
      PrefixComp(ComponentTypeDestinationPrefix, Pfx(V4(198, 51, 100, 0), 16)),
      RawComp(ComponentTypeIpProtocol, <<1, 6>>),
      RawComp(ComponentTypeIpProtocol, <<129, 4>>) }

SortKeys == UNION { KeysOver(SortComponentPool, n) : n \in 0..MaxComps }

ShortInputs == UNION { [1..n -> SortKeys] : n \in 0..MaxSortLen }

\* Three one-entry lists the comparator does not order transitively: KeyNarrow
\* precedes KeyWide, KeyWide precedes KeyOther, KeyNarrow and KeyOther are Equal.
KeyNarrow == <<PrefixComp(ComponentTypeDestinationPrefix, Pfx(V4(192, 0, 2, 0), 24))>>
KeyWide == <<PrefixComp(ComponentTypeDestinationPrefix, Pfx(V4(192, 0, 2, 0), 16))>>
KeyOther == <<PrefixComp(ComponentTypeDestinationPrefix, Pfx(V4(198, 51, 100, 0), 16))>>

\* The slices too long for the insertion sort of sort.Slice: KeyOther
\* everywhere but at up to MaxOdd positions, which hold KeyNarrow or KeyWide.
LongInputs ==
    UNION { UNION { { [i \in 1..n |-> IF i \in P THEN v[i] ELSE KeyOther] :
                        v \in [P -> {KeyNarrow, KeyWide}] } :
                    P \in { Q \in SUBSET (1..n) : Cardinality(Q) <= MaxOdd } } :
            n \in (maxInsertion + 1)..MaxLongLen }

SortInputs == ShortInputs \cup LongInputs

ASPathPool ==
    { NilSlice, Slice(<<>>), Slice(<<65001>>), Slice(<<65001, 64512>>),
      Slice(<<65002, 65001>>) }

V6Host == <<32, 1, 13, 184, 0, 0, 0, 0, 0, 0, 0, 0, 0, 0, 0, 1>>

\* net.IP values: 16-byte and 4-byte forms, an IPv6 address, and the nil IP.
OriginatorPool ==
    { IPv4(192, 0, 2, 1), V4(192, 0, 2, 1), IPv4(192, 0, 2, 2), V6Host, <<>> }

NeighborASPool == { 65001, 65002 }

DestPool == { Pfx(V4(192, 88, 99, 0), 24) }

Rules ==
    [ DestPrefix : DestPool \cup {Nil}, FromEBGP : BOOLEAN, NeighborAS : {65001},
      ASPath : ASPathPool, OriginatorID : OriginatorPool ]

UnicastRoutes ==
    [ Prefix : DestPool, NeighborAS : NeighborASPool, ASPath : ASPathPool,
      OriginatorID : OriginatorPool ]

\* The routes MoreSpecifics answers with: only their neighbor AS is read.
MoreSpecificRoutes ==
    [ Prefix : {Pfx(V4(192, 88, 99, 0), 25)}, NeighborAS : NeighborASPool,
      ASPath : {Slice(<<65001>>)}, OriginatorID : {IPv4(192, 0, 2, 3)} ]

Ribs ==
    [ best : UnicastRoutes \cup {Nil},
      moreSpecific : UNION { [1..n -> MoreSpecificRoutes] : n \in 0..MaxMore } ]

Configs ==
    [ AllowNoDestPrefix : BOOLEAN, EnableEmptyOrConfed : BOOLEAN,
      ASPathPolicy : {Nil, [allowAllPolicy |-> TRUE]} ] \cup {Nil}

-----------------------------------------------------------------------------
(* The calls *)

NoKey == <<>>
NoRule == Nil
NoRib == Nil
NoCfg == Nil

Init ==
    /\ op = "init"
    /\ a = NoKey /\ b = NoKey /\ c = NoKey
    /\ rab = Equal /\ rba = Equal /\ rbc = Equal /\ rac = Equal
    /\ list = <<>> /\ sorted = <<>>
    /\ fs = NoRule /\ rib = NoRib /\ cfg = NoCfg /\ err = NoError
    /\ pc = "idle" /\ queries = <<>> /\ lbest = Nil /\ lmore = <<>> /\ idx = 0

StepsIdle ==
    pc' = "idle" /\ queries' = <<>> /\ lbest' = Nil /\ lmore' = <<>> /\ idx' = 0

OrderingIdle ==
    /\ a' = NoKey /\ b' = NoKey /\ c' = NoKey
    /\ rab' = Equal /\ rba' = Equal /\ rbc' = Equal /\ rac' = Equal

SortIdle == list' = <<>> /\ sorted' = <<>>

ValidateIdle == fs' = NoRule /\ rib' = NoRib /\ cfg' = NoCfg /\ err' = NoError

\* CompareFlowSpecKey on two lists, called both ways round.
CallCompare ==
    /\ op = "init"
    /\ \E x \in Keys, y \in Keys :
        /\ op' = "compare"
        /\ a' = x /\ b' = y /\ c' = NoKey
        /\ rab' = CompareFlowSpecKey(x, y)
        /\ rba' = CompareFlowSpecKey(y, x)
        /\ rbc' = Equal /\ rac' = Equal
        /\ SortIdle /\ ValidateIdle /\ StepsIdle

\* CompareFlowSpecKey on the pairs of three lists.
CallCompare3 ==
    /\ op = "init"
    /\ \E x \in SortKeys, y \in SortKeys, z \in SortKeys :
        /\ op' = "compare3"
        /\ a' = x /\ b' = y /\ c' = z
        /\ rab' = CompareFlowSpecKey(x, y)
        /\ rba' = CompareFlowSpecKey(y, x)
        /\ rbc' = CompareFlowSpecKey(y, z)
        /\ rac' = CompareFlowSpecKey(x, z)
        /\ SortIdle /\ ValidateIdle /\ StepsIdle

\* SortFlowSpecs on a slice of lists.
CallSort ==
    /\ op = "init"
    /\ \E s \in SortInputs :
        /\ op' = "sort"
        /\ list' = s
        /\ sorted' \in SortFlowSpecs(s)
        /\ OrderingIdle /\ ValidateIdle /\ StepsIdle

\* ValidateFeasibility on a rule, the answers of a RIB and a config.
CallValidate ==
    /\ op = "init"
    /\ \E f \in Rules, r \in Ribs, g \in Configs :
        /\ op' = "validate"
        /\ fs' = f /\ rib' = r /\ cfg' = g
        /\ err' = ValidateFeasibility(f, r, g)
        /\ OrderingIdle /\ SortIdle /\ StepsIdle

\* The arguments of the calls that are run step by step.
StepRules ==
    { f \in Rules :
        /\ f.OriginatorID \in {IPv4(192, 0, 2, 1), IPv4(192, 0, 2, 2)}
        /\ f.ASPath \in {NilSlice, Slice(<<65001>>), Slice(<<65002, 65001>>)} }

StepRibs ==
    { r \in Ribs :
        r.best # Nil =>
            /\ r.best.OriginatorID \in {IPv4(192, 0, 2, 1), IPv4(192, 0, 2, 2)}
            /\ r.best.ASPath \in {NilSlice, Slice(<<65001>>), Slice(<<65002, 65001>>)} }

StepConfigs == { g \in Configs : g # Nil => g.ASPathPolicy = Nil }

OrderingUnchanged == UNCHANGED <<a, b, c, rab, rba, rbc, rac, list, sorted>>

\* ValidateFeasibility is entered.
StartValidate ==
    /\ op = "init"
    /\ \E f \in StepRules, r \in StepRibs, g \in StepConfigs :
        /\ op' = "steps"
        /\ fs' = f /\ rib' = r /\ cfg' = g /\ err' = NoError
        /\ pc' = "ruleA" /\ queries' = <<>>
        /\ lbest' = Nil /\ lmore' = <<>> /\ idx' = 0
        /\ OrderingUnchanged

\* The default config and rule a).
StepRuleA ==
    /\ op = "steps" /\ pc = "ruleA"
    /\ IF fs.DestPrefix = Nil
       THEN pc' = "done" /\ err' = RuleA(fs, EffectiveConfig(cfg))
       ELSE pc' = "bestPath" /\ err' = err
    /\ UNCHANGED <<op, fs, rib, cfg, queries, lbest, lmore, idx>>
    /\ OrderingUnchanged

\* A BestPath step that asks the RIB once more when it answers nil.
StepBestPathRetry ==
    /\ op = "steps" /\ pc = "bestPath"
    /\ lbest' = BestPath(rib, fs.DestPrefix)
    /\ queries' = IF lbest' = Nil
                  THEN queries \o <<"BestPath", "BestPath">>
                  ELSE Append(queries, "BestPath")
    /\ IF lbest' = Nil
       THEN pc' = "done" /\ err' = ErrNoBestUnicast
       ELSE pc' = "originator" /\ err' = err
    /\ UNCHANGED <<op, fs, rib, cfg, lmore, idx>>
    /\ OrderingUnchanged

\* best = rib.BestPath(*dst) and its nil check.
StepBestPath ==
    /\ op = "steps" /\ pc = "bestPath"
    /\ queries' = Append(queries, "BestPath")
    /\ lbest' = BestPath(rib, fs.DestPrefix)
    /\ IF lbest' = Nil
       THEN pc' = "done" /\ err' = ErrNoBestUnicast
       ELSE pc' = "originator" /\ err' = err
    /\ UNCHANGED <<op, fs, rib, cfg, lmore, idx>>
    /\ OrderingUnchanged

\* Rule b): the relaxation and the originator check.
StepOriginator ==
    /\ op = "steps" /\ pc = "originator"
    /\ LET e == RuleB(fs, EffectiveConfig(cfg), lbest)
       IN  IF e # NoError
           THEN pc' = "done" /\ err' = e
           ELSE pc' = "moreSpecifics" /\ err' = err
    /\ UNCHANGED <<op, fs, rib, cfg, queries, lbest, lmore, idx>>
    /\ OrderingUnchanged

\* RuleCCheck: moreSpecifics = rib.MoreSpecifics(*dst).
StepMoreSpecifics ==
    /\ op = "steps" /\ pc = "moreSpecifics"
    /\ queries' = Append(queries, "MoreSpecifics")
    /\ lmore' = MoreSpecifics(rib, fs.DestPrefix)
    /\ idx' = 1
    /\ pc' = "ruleC"
    /\ UNCHANGED <<op, fs, rib, cfg, err, lbest>>
    /\ OrderingUnchanged

\* One iteration of for _, r := range moreSpecifics, or its end.
StepRuleC ==
    /\ op = "steps" /\ pc = "ruleC"
    /\ IF idx > Len(lmore)
       THEN pc' = "leftMost" /\ err' = err /\ idx' = idx
       ELSE IF lmore[idx].NeighborAS # lbest.NeighborAS
       THEN pc' = "done" /\ err' = ErrMoreSpecificFromOtherNeighbor /\ idx' = idx
       ELSE pc' = "ruleC" /\ err' = err /\ idx' = idx + 1
    /\ UNCHANGED <<op, fs, rib, cfg, queries, lbest, lmore>>
    /\ OrderingUnchanged

\* The eBGP left-most AS check and the final return.
StepLeftMost ==
    /\ op = "steps" /\ pc = "leftMost"
    /\ err' = LeftMostASCheck(fs, lbest)
    /\ pc' = "done"
    /\ UNCHANGED <<op, fs, rib, cfg, queries, lbest, lmore, idx>>
    /\ OrderingUnchanged

\* The steps of a call that has been entered.
Steps ==
    \/ StepRuleA \/ StepBestPath \/ StepOriginator
    \/ StepMoreSpecifics \/ StepRuleC \/ StepLeftMost

NextSteps == StartValidate \/ Steps

Next == CallCompare \/ CallCompare3 \/ CallSort \/ CallValidate \/ NextSteps

Spec == Init /\ [][Next]_vars

\* A call that has been entered runs to its return: it is synchronous and
\* nothing suspends it.
SpecSteps == Init /\ [][NextSteps]_vars /\ WF_vars(Steps)

NextOrdering == CallCompare \/ CallCompare3 \/ CallSort
SpecOrdering == Init /\ [][NextOrdering]_vars

NextValidate == CallValidate
SpecValidate == Init /\ [][NextValidate]_vars

-----------------------------------------------------------------------------
(* Ordering: properties of CompareFlowSpecKey and SortFlowSpecs *)

\* C1: CompareFlowSpecKey is antisymmetric: CompareFlowSpecKey(a, b) and
\* CompareFlowSpecKey(b, a) are exact opposites (A-precedes against
\* B-precedes, or both Equal), and a list compared with itself is Equal.
C1_Antisymmetric ==
    op = "compare" =>
        /\ rba = 0 - rab
        /\ rab \in {AHasPrecedence, Equal, BHasPrecedence}
        /\ a = b => rab = Equal

\* Two different lists of two components each, decided at the second position.
C1_Witness ==
    /\ op = "compare"
    /\ Len(a) = 2 /\ Len(b) = 2
    /\ a[1] = b[1] /\ a[2] # b[2]
    /\ rab = AHasPrecedence /\ rba = BHasPrecedence

\* C2: CompareFlowSpecKey is transitive: if a precedes b and b precedes c then
\* a precedes c.
C2_Transitive ==
    op = "compare3" =>
        (rab = AHasPrecedence /\ rbc = AHasPrecedence => rac = AHasPrecedence)

\* C3: after SortFlowSpecs, no later element of the slice precedes an earlier one.
C3_SortedAllPairs ==
    op = "sort" =>
        \A i \in 1..Len(sorted) : \A j \in 1..Len(sorted) :
            i < j => CompareFlowSpecKey(sorted[i], sorted[j]) # BHasPrecedence

\* C4: after SortFlowSpecs, every adjacent pair of the slice is consistent with
\* the comparator: the left one precedes the right one or they are Equal.
C4_SortedAdjacent ==
    op = "sort" =>
        \A i \in 1..(Len(sorted) - 1) :
            CompareFlowSpecKey(sorted[i], sorted[i + 1]) \in {AHasPrecedence, Equal}

-----------------------------------------------------------------------------
(* Feasibility: properties of ValidateFeasibility *)

\* The config a call runs under, as section 4.2 of the specification states it.
StatedConfig ==
    IF cfg = Nil
    THEN [AllowNoDestPrefix |-> FALSE, EnableEmptyOrConfed |-> TRUE, ASPathPolicy |-> Nil]
    ELSE cfg

\* The 16-byte form of an address.
To16(ip) == IF Len(ip) = 4 THEN v4InV6Prefix \o ip ELSE ip
\* The rule and the best path name different originators.
OriginatorDiffers == To16(fs.OriginatorID) # To16(rib.best.OriginatorID)
\* The rule's AS_PATH is empty: nil or of length zero.
RuleASPathEmpty == fs.ASPath = NilSlice \/ fs.ASPath = Slice(<<>>)
BestASPathEmpty == rib.best.ASPath = NilSlice \/ rib.best.ASPath = Slice(<<>>)
\* The empty-AS_PATH relaxation applies.
Relaxed == StatedConfig.EnableEmptyOrConfed /\ ~fs.FromEBGP /\ RuleASPathEmpty

\* The steps of the chain the arguments violate, each on its own.
ViolatesA == fs.DestPrefix = Nil /\ ~StatedConfig.AllowNoDestPrefix
ViolatesNoBest == fs.DestPrefix # Nil /\ rib.best = Nil
ViolatesB == fs.DestPrefix # Nil /\ rib.best # Nil /\ ~Relaxed /\ OriginatorDiffers
ViolatesC ==
    /\ fs.DestPrefix # Nil /\ rib.best # Nil
    /\ \E i \in 1..Len(rib.moreSpecific) :
           rib.moreSpecific[i].NeighborAS # rib.best.NeighborAS
ViolatesD ==
    /\ fs.DestPrefix # Nil /\ rib.best # Nil /\ fs.FromEBGP
    /\ \/ BestASPathEmpty
       \/ RuleASPathEmpty
       \/ Head(fs.ASPath.elems) # Head(rib.best.ASPath.elems)

\* C5: ValidateFeasibility reports the earliest violated step of the chain
\* NoDestinationPrefix, NoBestUnicast, OriginatorValidationFailed,
\* MoreSpecificFromOtherNeighbor, LeftMostASMismatch, and succeeds when no step
\* is violated.
C5_FirstFailureWins ==
    op = "validate" =>
        err = IF ViolatesA THEN ErrNoDestinationPrefix
              ELSE IF ViolatesNoBest THEN ErrNoBestUnicast
              ELSE IF ViolatesB THEN ErrOriginatorValidationFailed
              ELSE IF ViolatesC THEN ErrMoreSpecificFromOtherNeighbor
              ELSE IF ViolatesD THEN ErrLeftMostASMismatch
              ELSE NoError

\* An eBGP rule that violates the originator step, the more-specific step and
\* the left-most AS step at once.
C5_Witness ==
    /\ op = "validate"
    /\ ViolatesB /\ ViolatesC /\ ViolatesD
    /\ fs.FromEBGP /\ BestASPathEmpty
    /\ err = ErrOriginatorValidationFailed

\* C6: a call with an absent config returns what the call with the config
\* {AllowNoDestPrefix: false, EnableEmptyOrConfed: true} returns.
C6_NilConfigIsDefault ==
    op = "validate" /\ cfg = Nil =>
        err = ValidateFeasibility(fs, rib,
                  [AllowNoDestPrefix |-> FALSE, EnableEmptyOrConfed |-> TRUE,
                   ASPathPolicy |-> Nil])

\* A call without config that succeeds only because the relaxation is on by
\* default: an iBGP rule with an empty AS_PATH and another originator.
C6_Witness ==
    /\ op = "validate" /\ cfg = Nil
    /\ fs.DestPrefix # Nil /\ rib.best # Nil
    /\ ~fs.FromEBGP /\ RuleASPathEmpty /\ OriginatorDiffers
    /\ err = NoError

\* C7: for a rule without destination prefix the outcome is decided by
\* AllowNoDestPrefix alone: success when it is enabled, NoDestinationPrefix
\* when it is not, whatever the other arguments are.
C7_NoDestDecidedByToggle ==
    op = "validate" /\ fs.DestPrefix = Nil =>
        err = IF cfg # Nil /\ cfg.AllowNoDestPrefix THEN NoError
              ELSE ErrNoDestinationPrefix

\* A rule without destination prefix accepted although the RIB has no best
\* path and the rule is an eBGP rule with an empty AS_PATH.
C7_Witness ==
    /\ op = "validate"
    /\ fs.DestPrefix = Nil /\ cfg # Nil /\ cfg.AllowNoDestPrefix
    /\ rib.best = Nil /\ fs.FromEBGP /\ RuleASPathEmpty
    /\ err = NoError

\* C8: with a destination prefix and a best path, the originator check is
\* skipped exactly when EnableEmptyOrConfed is on, the rule is not an eBGP rule
\* and its AS_PATH is empty; in every other case a differing originator is
\* rejected with OriginatorValidationFailed.
C8_OriginatorCheck ==
    op = "validate" /\ fs.DestPrefix # Nil /\ rib.best # Nil =>
        /\ (~Relaxed /\ OriginatorDiffers) => err = ErrOriginatorValidationFailed
        /\ (Relaxed \/ ~OriginatorDiffers) => err # ErrOriginatorValidationFailed

\* An eBGP rule with an empty AS_PATH and another originator, the relaxation
\* enabled: it is rejected.
C8_Witness ==
    /\ op = "validate"
    /\ fs.DestPrefix # Nil /\ rib.best # Nil
    /\ cfg # Nil /\ cfg.EnableEmptyOrConfed
    /\ fs.FromEBGP /\ RuleASPathEmpty /\ OriginatorDiffers
    /\ err = ErrOriginatorValidationFailed

\* The orderings of a sequence.
Permutations(s) ==
    { [i \in 1..Len(s) |-> s[p[i]]] :
        p \in { q \in [1..Len(s) -> 1..Len(s)] :
                  \A i \in 1..Len(s) : \E j \in 1..Len(s) : q[j] = i } }

\* C9: for a rule that passes the destination-prefix and unicast-correlation
\* steps, the result is MoreSpecificFromOtherNeighbor exactly when some route
\* of MoreSpecifics has a neighbor AS other than the best path's, and the
\* result is the same for every ordering of the routes.
C9_MoreSpecifics ==
    op = "validate" /\ fs.DestPrefix # Nil /\ rib.best # Nil
                    /\ (Relaxed \/ ~OriginatorDiffers) =>
        /\ err = ErrMoreSpecificFromOtherNeighbor <=> ViolatesC
        /\ \A q \in Permutations(rib.moreSpecific) :
               ValidateFeasibility(fs, [rib EXCEPT !.moreSpecific = q], cfg) = err

\* The route from another neighbor AS comes second, after a route from the
\* best path's neighbor AS.
C9_Witness ==
    /\ op = "validate"
    /\ fs.DestPrefix # Nil /\ rib.best # Nil
    /\ Len(rib.moreSpecific) = 2
    /\ rib.moreSpecific[1].NeighborAS = rib.best.NeighborAS
    /\ rib.moreSpecific[2].NeighborAS # rib.best.NeighborAS
    /\ err = ErrMoreSpecificFromOtherNeighbor

\* C10: a successful eBGP rule with a destination prefix has a non-empty
\* AS_PATH whose first AS is the first AS of the best path's non-empty AS_PATH;
\* LeftMostASMismatch is never returned for a rule that is not an eBGP rule.
C10_LeftMostAS ==
    op = "validate" =>
        /\ (err = NoError /\ fs.DestPrefix # Nil /\ fs.FromEBGP) =>
              /\ ~RuleASPathEmpty /\ ~BestASPathEmpty
              /\ fs.ASPath.elems[1] = rib.best.ASPath.elems[1]
        /\ ~fs.FromEBGP => err # ErrLeftMostASMismatch

\* A successful eBGP rule whose AS_PATH agrees with the best path's in the
\* first AS only.
C10_Witness ==
    /\ op = "validate"
    /\ fs.DestPrefix # Nil /\ fs.FromEBGP /\ err = NoError
    /\ fs.ASPath # rib.best.ASPath
    /\ Len(rib.moreSpecific) > 0

-----------------------------------------------------------------------------
(* Ordering: the rules of CompareFlowSpecKey, position by position *)

IsPrefixType(t) == t = ComponentTypeDestinationPrefix \/ t = ComponentTypeSourcePrefix

\* Both lists hold a prefix of the same type at position i.
BothPrefixAt(i) == a[i].Type = b[i].Type /\ IsPrefixType(a[i].Type)
\* Both lists hold a raw value of the same type at position i.
BothRawAt(i) == a[i].Type = b[i].Type /\ ~IsPrefixType(a[i].Type)

\* The prefixes at position i have different lengths and the shorter one does
\* not contain the address of the longer one.
DisjointAt(i) ==
    /\ BothPrefixAt(i)
    /\ \/ /\ a[i].Prefix.bits > b[i].Prefix.bits
          /\ ~PrefixContains(b[i].Prefix, a[i].Prefix.addr)
       \/ /\ b[i].Prefix.bits > a[i].Prefix.bits
          /\ ~PrefixContains(a[i].Prefix, b[i].Prefix.addr)

\* Position i decides nothing: the same component, or disjoint prefixes.
TiesAt(i) == a[i] = b[i] \/ DisjointAt(i)
\* The walk reaches position i.
Reaches(i) == \A j \in 1..(i - 1) : TiesAt(j)

\* The result that gives precedence to a (TRUE) or to b (FALSE).
Favors(aWins) == IF aWins THEN AHasPrecedence ELSE BHasPrecedence

\* C12: with different entry counts the list with more entries takes
\* precedence, whatever the entries are.
C12_MoreEntriesWin ==
    op = "compare" /\ Len(a) # Len(b) => rab = Favors(Len(a) > Len(b))

\* A two-entry list of types 2 and 3 against a one-entry list holding a
\* destination prefix.
C12_Witness ==
    /\ op = "compare"
    /\ Len(a) = 2 /\ Len(b) = 1
    /\ a[1].Type = ComponentTypeSourcePrefix /\ a[2].Type = ComponentTypeIpProtocol
    /\ b[1].Type = ComponentTypeDestinationPrefix
    /\ rab = AHasPrecedence

\* C13: at the position the walk reaches with two prefixes of the same type:
\* with different bit lengths and the shorter prefix containing the address of
\* the longer one, the longer prefix takes precedence; with equal bit lengths
\* and different addresses, the smaller address takes precedence.
C13_PrefixRules ==
    op = "compare" /\ Len(a) = Len(b) =>
        \A i \in 1..Len(a) :
            Reaches(i) /\ BothPrefixAt(i) =>
                LET pa == a[i].Prefix
                    pb == b[i].Prefix
                IN  /\ (pa.bits > pb.bits /\ PrefixContains(pb, pa.addr))
                           => rab = AHasPrecedence
                    /\ (pb.bits > pa.bits /\ PrefixContains(pa, pb.addr))
                           => rab = BHasPrecedence
                    /\ (pa.bits = pb.bits /\ pa.addr # pb.addr)
                           => rab = Favors(AddrLess(pa.addr, pb.addr))

\* The source prefixes decide after a tie of the destination prefixes: the
\* /24 inside the /16 takes precedence.
C13_Witness ==
    /\ op = "compare"
    /\ Len(a) = 2 /\ Len(b) = 2
    /\ a[1] = b[1]
    /\ BothPrefixAt(2)
    /\ a[2].Prefix.bits > b[2].Prefix.bits
    /\ PrefixContains(b[2].Prefix, a[2].Prefix.addr)
    /\ rab = AHasPrecedence

\* C14: a position the walk reaches with disjoint prefixes of different
\* lengths decides nothing: the result is the one of the positions after it,
\* and Equal when it is the last position, although the lists differ.
C14_DisjointDecidesNothing ==
    op = "compare" /\ Len(a) = Len(b) =>
        \A i \in 1..Len(a) :
            Reaches(i) /\ DisjointAt(i) =>
                /\ rab = CompareFlowSpecKey(SubSeq(a, i + 1, Len(a)),
                                            SubSeq(b, i + 1, Len(b)))
                /\ i = Len(a) => (rab = Equal /\ a # b)

\* Two one-entry lists with disjoint prefixes of different lengths.
C14_Witness ==
    /\ op = "compare"
    /\ Len(a) = 1 /\ Len(b) = 1
    /\ DisjointAt(1)
    /\ a # b /\ rab = Equal /\ rba = Equal

\* The first position at which two byte sequences differ, 0 when one is a
\* prefix of the other.
FirstDifference(x, y) ==
    LET n == IF Len(x) < Len(y) THEN Len(x) ELSE Len(y)
        D == { k \in 1..n : x[k] # y[k] }
    IN  IF D = {} THEN 0 ELSE CHOOSE k \in D : \A m \in D : k <= m

\* C15: at the position the walk reaches with two raw values of the same type:
\* the smaller byte at the first difference over the common length takes
\* precedence, bytes compared unsigned; with an identical common part the
\* longer sequence takes precedence; identical sequences decide nothing and
\* the walk continues.
C15_RawRules ==
    op = "compare" /\ Len(a) = Len(b) =>
        \A i \in 1..Len(a) :
            Reaches(i) /\ BothRawAt(i) =>
                LET x == a[i].Raw
                    y == b[i].Raw
                    k == FirstDifference(x, y)
                IN  rab = IF k # 0 THEN Favors(x[k] < y[k])
                          ELSE IF Len(x) # Len(y) THEN Favors(Len(x) > Len(y))
                          ELSE CompareFlowSpecKey(SubSeq(a, i + 1, Len(a)),
                                                  SubSeq(b, i + 1, Len(b)))

\* The ip-protocol values {0x81, 0x11} and {0x01, 0x06}: the second list takes
\* precedence.
C15_Witness ==
    /\ op = "compare"
    /\ Len(a) = 1 /\ Len(b) = 1
    /\ BothRawAt(1)
    /\ a[1].Raw = <<129, 17>> /\ b[1].Raw = <<1, 6>>
    /\ rab = BHasPrecedence

-----------------------------------------------------------------------------
(* Feasibility: the queries of one call *)

Results ==
    { NoError, ErrNoDestinationPrefix, ErrNoBestUnicast, ErrOriginatorValidationFailed,
      ErrMoreSpecificFromOtherNeighbor, ErrLeftMostASMismatch }

\* What holds of the queries at every step of a call.
QueryProtocol ==
    op = "steps" =>
        /\ fs.DestPrefix = Nil => queries = <<>>
        /\ queries \in { <<>>, <<"BestPath">>, <<"BestPath", "MoreSpecifics">> }
        /\ (pc = "done" /\ fs.DestPrefix # Nil) => Len(queries) >= 1
        /\ Len(queries) = 2 =>
              /\ rib.best # Nil
              /\ Relaxed \/ ~OriginatorDiffers
        /\ pc = "done" => err \in Results

\* The step-by-step run returns what ValidateFeasibility returns.
StepsAgree ==
    (op = "steps" /\ pc = "done") => err = ValidateFeasibility(fs, rib, cfg)

\* C11: in one call, no query is made for a rule without destination prefix;
\* otherwise BestPath is queried exactly once and first, MoreSpecifics at most
\* once and only after BestPath returned a route and the originator step did
\* not fail; no query is repeated, and the call always ends with a result.
C11_QueryProtocol ==
    /\ []QueryProtocol
    /\ (op = "steps") ~> (pc = "done")

\* A call that made both queries, went over two more-specific routes and
\* succeeded.
C11_Witness ==
    /\ op = "steps" /\ pc = "done"
    /\ queries = <<"BestPath", "MoreSpecifics">>
    /\ Len(lmore) = 2 /\ idx = 3
    /\ err = NoError

====
